---- MODULE Spec2Model ----
(***************************************************************************)
(* Meraki / Catalyst client tracker.                                       *)
(*                                                                         *)
(* SpecFleet  : submit() from its first line to the end of the switch      *)
(*              probe phase (app.py 186-237), with one probe thread per    *)
(*              configured switch running catalyst_client_information.     *)
(* SpecCloud  : the rest of submit(): meraki_client_information and the    *)
(*              report assembly (app.py 240-289, meraki_client.py).        *)
(*                                                                         *)
(* Python strings on which the code does character work (MAC addresses,    *)
(* network and application names) are sequences of one-character strings.  *)
(* Command output is a record [kind, val]: kind "str" holds a sequence of  *)
(* lines, each a sequence of whitespace-delimited tokens; kind "list"      *)
(* holds the rows TextFSM parsed; kind "none" is Python's None.            *)
(***************************************************************************)
EXTENDS Integers, Sequences, FiniteSets, TLC

\* ------------------------------------------------------------------ bounds
\* Number of entries of config.SWITCH_INFO (one probe thread each).
NumSwitches == 2

\* Number of extraction commands of one lookup, over all its switches, that
\* may be answered with a rejection, with nothing, or with text TextFSM
\* cannot parse.  The presence query is not counted: any answer, any time.
MaxFaults == 1

Switches == 1..NumSwitches

\* Number of lookup requests the server handles at the same time.
NumRequests == 2

Requests == 1..NumRequests

\* ------------------------------------------------------- Python value model
\* None in a string-typed slot (no character is the string "None").
None == <<"None">>

\* None in an object-typed slot.
NoneObj == [none |-> TRUE]

\* The empty string.
EmptyStr == <<>>

\* Python truthiness of an optional string: None and '' are falsy.
Truthy(s) == s # None /\ s # EmptyStr

Uppers == <<"A", "B", "C", "D", "E", "F", "G", "Z">>

Lowers == <<"a", "b", "c", "d", "e", "f", "g", "z">>

\* str.lower() on one character.
LowerChar(c) ==
    IF \E i \in 1..Len(Uppers) : Uppers[i] = c
    THEN Lowers[CHOOSE i \in 1..Len(Uppers) : Uppers[i] = c]
    ELSE c

\* str.lower()
Lower(s) == [i \in 1..Len(s) |-> LowerChar(s[i])]

\* str.replace(ch, '')
Remove(s, ch) == SelectSeq(s, LAMBDA c : c # ch)

\* sep.join([s[i:i + n] for i in range(0, len(s), n)])
RECURSIVE ChunkJoin(_, _, _)
ChunkJoin(s, n, sep) ==
    IF Len(s) <= n THEN s
    ELSE SubSeq(s, 1, n) \o <<sep>> \o ChunkJoin(SubSeq(s, n + 1, Len(s)), n, sep)

\* catalyst_client.convert_mac: meraki format -> catalyst format.
convert_mac(mac) == ChunkJoin(Lower(Remove(mac, ":")), 4, ".")

\* submit(): catalyst format -> colon-delimited format.
mac_to_colon(mac) == ChunkJoin(Remove(mac, "."), 2, ":")

\* ------------------------------------------------------------ form inputs
FormMac == <<"A", "A", ":", "B", "B", ":", "C", "C", ":", "D", "D", ":", "E", "E", ":", "F", "F">>

FormIp == <<"1", "0", ".", "0", ".", "0", ".", "5">>

CatMac == <<"a", "a", "b", "b", ".", "c", "c", "d", "d", ".", "e", "e", "f", "f">>

MacInputs == {EmptyStr, FormMac}

IpInputs == {EmptyStr, FormIp}

\* ---------------------------------------------------------- command output
Str(lines) == [kind |-> "str", val |-> lines]

List(rows) == [kind |-> "list", val |-> rows]

NoneOut == [kind |-> "none", val |-> <<>>]

EmptyOut == Str(<<>>)

\* The switch rejected the command.
InvalidOut == Str(<< <<"%", "Invalid", "input", "detected">> >>)

\* 'Invalid' in output
HasInvalid(raw) ==
    /\ raw.kind = "str"
    /\ \E i \in 1..Len(raw.val) : \E j \in 1..Len(raw.val[i]) : raw.val[i][j] = "Invalid"

\* catalyst_client.execute_switch_commands, given what send_command returned.
execute_switch_commands(raw) == IF HasInvalid(raw) THEN NoneOut ELSE raw

\* Python truthiness of a command output ("if output").
OutTruthy(o) == o.kind # "none" /\ Len(o.val) > 0

\* output.strip().split() on a string output.
RECURSIVE Tokens(_)
Tokens(lines) == IF lines = <<>> THEN <<>> ELSE Head(lines) \o Tokens(Tail(lines))

MacTableText == Str(<< <<"10", "aabb.ccdd.eeff", "DYNAMIC", "Gi1/0/1">> >>)

ArpText == Str(<< <<"Internet", "10.0.0.5", "5", "aabb.ccdd.eeff", "ARPA", "Vlan10">> >>)

ArpRows == List(<< [address |-> FormIp, mac |-> CatMac] >>)

HostnameText == Str(<< <<"hostname", "sw1">> >>)

IntBrRows == List(<< [status |-> "up", proto |-> "up"] >>)

IntBrText == Str(<< <<"Gi1/0/1", "unassigned", "YES", "unset", "up", "up">> >>)

TrunkAccessText ==
    Str(<< <<"Port", "Mode", "Encapsulation", "Status", "Native", "vlan">>,
           <<"Gi1/0/1", "off", "802.1q", "not-trunking", "1">>,
           <<"Port", "Vlans", "allowed", "on", "trunk">>,
           <<"Gi1/0/1", "10">>,
           <<"Port", "Vlans", "allowed", "and", "active">>,
           <<"Gi1/0/1", "none">> >>)

CdpRows == List(<< [neighbor |-> "core1", local_interface |-> "Gi1/0/48"] >>)

LldpRows == List(<< [neighbor |-> "ap1", local_interface |-> "Gi1/0/2"] >>)

\* What the switch may answer to each command.
PresenceOuts == {InvalidOut, EmptyOut, MacTableText}

HostnameOuts == {InvalidOut, EmptyOut, HostnameText}

ArpOuts == {InvalidOut, EmptyOut, ArpRows, ArpText}

MacTableOuts == {InvalidOut, EmptyOut, MacTableText}

IntBrOuts == {InvalidOut, EmptyOut, IntBrRows, IntBrText}

TrunkOuts == {InvalidOut, EmptyOut, TrunkAccessText}

CdpOuts == {InvalidOut, EmptyOut, CdpRows}

LldpOuts == {InvalidOut, EmptyOut, LldpRows}

\* ------------------------------------------------------ CatalystClientInfo
\* dict[k] = v
DictSet(d, k, v) == (k :> v) @@ d

EmptyDict == <<>>

\* CatalystClientInfo.__init__
CatalystClientInfo(mac, ip) ==
    [switch_hostname |-> "None", vlan |-> "None", interface |-> "None",
     interface_status |-> EmptyDict, cdp |-> <<>>, lldp |-> <<>>,
     mac |-> IF Truthy(mac) THEN convert_mac(mac) ELSE None,
     lan_ip |-> ip, switch_connection |-> 0]

\* The result of a method: the object afterwards, or an exception raised.
Ok(self) == [raised |-> FALSE, self |-> self]

Raise(self) == [raised |-> TRUE, self |-> self]

\* CatalystClientInfo.clientPresentCheck: output != ''
clientPresentCheck(output) == output # EmptyOut

\* CatalystClientInfo.hostname
hostname(self, output) ==
    IF OutTruthy(output)
    THEN IF output.kind = "str" /\ Len(Tokens(output.val)) >= 2
         THEN Ok([self EXCEPT !.switch_hostname = Tokens(output.val)[2]])
         ELSE Raise(self)
    ELSE Ok(self)

\* CatalystClientInfo.arpTable
arpTable(self, output) ==
    IF OutTruthy(output)
    THEN IF output.kind = "list"
         THEN IF Truthy(self.mac)
              THEN Ok([self EXCEPT !.lan_ip = output.val[1].address])
              ELSE Ok([self EXCEPT !.mac = output.val[1].mac])
         ELSE Raise(self)
    ELSE Ok(self)

\* CatalystClientInfo.macAddressTable
macAddressTable(self, output) ==
    IF output.kind = "str" /\ Len(Tokens(output.val)) >= 4
    THEN Ok([self EXCEPT !.vlan = Tokens(output.val)[1],
                         !.interface = Tokens(output.val)[4]])
    ELSE Raise(self)

\* interfaceStatus, first command (show ip int br).
interfaceStatusBrief(self, output) ==
    IF OutTruthy(output)
    THEN IF output.kind = "list"
         THEN Ok([self EXCEPT !.interface_status =
                     DictSet(@, "status", output.val[1].status \o "/" \o output.val[1].proto)])
         ELSE Raise(self)
    ELSE Ok(self)

\* interfaceStatus, the loop body over one line of the trunk output.
TrunkLine(status, line) ==
    IF line # <<>> /\ line[1] = "Port" THEN status
    ELSE IF Len(line) = 5
         THEN DictSet(DictSet(DictSet(status,
                  "mode", IF line[2] = "off" THEN "access" ELSE "trunk"),
                  "encapsulation", line[3]),
                  "native_vlan", line[5])
    ELSE IF Len(line) = 2 /\ "allowed_vlans" \notin DOMAIN status
         THEN DictSet(status, "allowed_vlans", line[2])
    ELSE status

RECURSIVE TrunkLines(_, _)
TrunkLines(status, lines) ==
    IF lines = <<>> THEN status
    ELSE TrunkLines(TrunkLine(status, Head(lines)), Tail(lines))

\* interfaceStatus, second command (show int <if> trunk).
interfaceStatusTrunk(self, output) ==
    IF OutTruthy(output)
    THEN IF output.kind = "str"
         THEN Ok([self EXCEPT !.interface_status = TrunkLines(@, output.val)])
         ELSE Raise(self)
    ELSE Ok(self)

\* CatalystClientInfo.interfaceStatus
interfaceStatus(self, out1, out2) ==
    LET r1 == interfaceStatusBrief(self, out1)
    IN IF r1.raised THEN r1 ELSE interfaceStatusTrunk(r1.self, out2)

\* CatalystClientInfo.neighborInformation
neighborInformation(self, out1, out2) ==
    LET s1 == IF OutTruthy(out1) THEN [self EXCEPT !.cdp = out1.val] ELSE self
    IN Ok(IF OutTruthy(out2) THEN [s1 EXCEPT !.lldp = out2.val] ELSE s1)

\* ------------------------------------------------------------------ state
VARIABLES
    submitPc,        \* position of the request thread inside submit()
    mac_address,     \* submit() local
    ip_address,      \* submit() local
    threadIdx,       \* index of the start / join loop over threads
    cat_details,     \* app.py global: the published CatalystClientInfo
    meraki_details,  \* app.py global: the published MerakiClientInfo
    progress,        \* app.py global
    lock,            \* app.py global lock: 0 when free, else the holder
    wpc,             \* position of each probe thread
    client,          \* each probe thread's local cat_client
    session,         \* each switch's SSH session: "none", "open", "closed"
    cmds,            \* number of commands each probe thread has executed
    cmdLog,          \* the commands each probe thread has sent to its switch, in order
    present,         \* what clientPresentCheck returned: "unknown", "yes", "no"
    lastHolder,      \* the thread that acquired the lock last, 0 when none did
    checkOut,        \* what the query of clientPresentCheck got, until macAddressTable ran
    faults,          \* extraction commands of this lookup that got an unusable answer
    meraki_client,   \* meraki_client_information() local: the MerakiClientInfo
    netIdx,          \* index of the loop over self.net_ids
    client_details,  \* client_detail_history() local
    app_usage,       \* app_usage_history() local
    app_usage_pie_chart, \* app_usage_history() local
    apiCalls,        \* number of dashboard calls made, per endpoint
    detailResp,      \* what getNetworkClients answered, per network
    usageResp,       \* what getNetworkClientsApplicationUsage answered, per network
    report,          \* the tables submit() hands to the template
    orgsResp,        \* what getOrganizations answered
    chartArg,        \* create_pie_chart_values(): the app_dict it is given
    chartRet,        \* create_pie_chart_values(): the new_dict it returns
    reqPc,           \* concurrent requests: the position of each inside submit()
    reqSaw,          \* concurrent requests: the cat_details each read after its joins
    thrPc,           \* concurrent requests: the position of each probe thread of each
    thrClient        \* concurrent requests: the local cat_client of each probe thread

fleetVars == <<submitPc, mac_address, ip_address, threadIdx, cat_details, meraki_details,
               progress, lock, lastHolder, wpc, client, session, cmds, cmdLog, present,
               checkOut, faults>>

cloudVars == <<meraki_client, netIdx, client_details, app_usage, app_usage_pie_chart, apiCalls,
               detailResp, usageResp, report, orgsResp>>

chartVars == <<chartArg, chartRet>>

sharedVars == <<reqPc, reqSaw, thrPc, thrClient>>

vars == <<fleetVars, cloudVars, chartVars, sharedVars>>

\* Before meraki_client_information is called nothing of it exists.
CloudIdle ==
    /\ meraki_client = NoneObj
    /\ netIdx = 0
    /\ client_details = NoneObj
    /\ app_usage = NoneObj
    /\ app_usage_pie_chart = NoneObj
    /\ apiCalls = [orgs |-> 0, networks |-> 0, clients |-> 0, usage |-> 0]
    /\ detailResp = <<>>
    /\ usageResp = <<>>
    /\ report = NoneObj
    /\ orgsResp = NoneObj

\* No call of create_pie_chart_values is being looked at on its own.
ChartIdle == chartArg = NoneObj /\ chartRet = NoneObj

\* app.py 39-49: the module globals as the import leaves them, no request yet.
FleetIdle ==
    /\ submitPc = "idle"
    /\ mac_address = EmptyStr
    /\ ip_address = EmptyStr
    /\ threadIdx = 0
    /\ cat_details = NoneObj
    /\ meraki_details = NoneObj
    /\ progress = 0
    /\ lock = 0
    /\ lastHolder = 0
    /\ wpc = [w \in Switches |-> "new"]
    /\ client = [w \in Switches |-> NoneObj]
    /\ session = [w \in Switches |-> "none"]
    /\ cmds = [w \in Switches |-> 0]
    /\ cmdLog = [w \in Switches |-> <<>>]
    /\ present = [w \in Switches |-> "unknown"]
    /\ checkOut = [w \in Switches |-> NoneObj]
    /\ faults = 0

\* No request is being followed next to another one.
SharedIdle ==
    /\ reqPc = [r \in Requests |-> "idle"]
    /\ reqSaw = [r \in Requests |-> NoneObj]
    /\ thrPc = [r \in Requests |-> [w \in Switches |-> "new"]]
    /\ thrClient = [r \in Requests |-> [w \in Switches |-> NoneObj]]

InitFleet == FleetIdle /\ CloudIdle /\ ChartIdle /\ SharedIdle

\* ------------------------------------------------- submit(), probe phase
\* app.py 186-222: clear the globals, read the form, build the threads.
SubmitBegin ==
    /\ submitPc = "idle"
    /\ \E m \in MacInputs, i \in IpInputs :
          /\ mac_address' = IF Len(i) # 0 THEN None ELSE m
          /\ ip_address' = IF Len(i) # 0 THEN i ELSE None
    /\ cat_details' = NoneObj
    /\ meraki_details' = NoneObj
    /\ progress' = 0
    /\ submitPc' = "start"
    /\ threadIdx' = 1
    /\ faults' = 0
    /\ UNCHANGED <<lock, lastHolder, wpc, client, session, cmds, cmdLog, present, checkOut,
                   cloudVars, chartVars, sharedVars>>

\* app.py 225-226: x.start()
StartThread ==
    /\ submitPc = "start"
    /\ wpc' = [wpc EXCEPT ![threadIdx] = "connect"]
    /\ client' = [client EXCEPT ![threadIdx] = CatalystClientInfo(mac_address, ip_address)]
    /\ IF threadIdx = NumSwitches
       THEN submitPc' = "join" /\ threadIdx' = 1
       ELSE submitPc' = "start" /\ threadIdx' = threadIdx + 1
    /\ UNCHANGED <<mac_address, ip_address, cat_details, meraki_details, progress, lock,
                   lastHolder, session, cmds, cmdLog, present, checkOut, faults, cloudVars,
                   chartVars, sharedVars>>

\* A thread has ended: it returned or died of an unhandled exception.
Terminated(w) == wpc[w] \in {"done", "raised"}

\* A join that gives up waiting as soon as some thread has published a match.
JoinReturnsOnFirstMatch(w) == Terminated(w) \/ cat_details # NoneObj

\* Thread.join() returns once the thread has ended.
JoinReturns(w) == Terminated(w)

\* app.py 229-230: x.join()
JoinThread ==
    /\ submitPc = "join"
    /\ JoinReturns(threadIdx)
    /\ IF threadIdx = NumSwitches
       THEN submitPc' = "joined" /\ threadIdx' = 0
       ELSE submitPc' = "join" /\ threadIdx' = threadIdx + 1
    /\ UNCHANGED <<mac_address, ip_address, cat_details, meraki_details, progress, lock,
                   lastHolder, wpc, client, session, cmds, cmdLog, present, checkOut, faults,
                   cloudVars, chartVars, sharedVars>>

\* app.py 232-237: progress = 25, then the MAC of the match when only an IP was given.
AfterBarrier ==
    /\ submitPc = "joined"
    /\ progress' = 25
    /\ IF ~Truthy(mac_address) /\ cat_details # NoneObj
       THEN IF cat_details.mac = None
            THEN submitPc' = "raised" /\ UNCHANGED mac_address
            ELSE submitPc' = "meraki" /\ mac_address' = mac_to_colon(cat_details.mac)
       ELSE submitPc' = "meraki" /\ UNCHANGED mac_address
    /\ UNCHANGED <<ip_address, threadIdx, cat_details, meraki_details, lock, lastHolder, wpc,
                   client, session, cmds, cmdLog, present, checkOut, faults, cloudVars,
                   chartVars, sharedVars>>

\* -------------------------------------- catalyst_client_information(w)
requestVars == <<submitPc, mac_address, ip_address, threadIdx, meraki_details, progress,
                 cloudVars, chartVars, sharedVars>>

\* The thread ends; its local cat_client goes with it.
Finish(w, how) ==
    /\ wpc' = [wpc EXCEPT ![w] = how]
    /\ client' = [client EXCEPT ![w] = NoneObj]

\* The thread goes on to its next call with its cat_client as the call left it.
Goto(w, pc, self) ==
    /\ wpc' = [wpc EXCEPT ![w] = pc]
    /\ client' = [client EXCEPT ![w] = self]

\* After a method call: on to the next step, or the exception ends the thread.
Step(w, res, pc) == IF res.raised THEN Finish(w, "raised") ELSE Goto(w, pc, res.self)

Ran(w, n) == cmds' = [cmds EXCEPT ![w] = @ + n]

\* execute_switch_commands(self.switch_connection, command), for each of commands
Sent(w, commands) == cmdLog' = [cmdLog EXCEPT ![w] = @ \o commands]

\* The commands of catalyst_client.py, without the MAC, IP or interface they name.
ShowMacTable == "show mac address-table | include"

ShowArpInclude == "show ip arp | include"

ShowArp == "show ip arp | i"

ShowHostname == "show run | i hostname"

ShowIntBr == "show ip int br"

ShowIntTrunk == "show int trunk"

ShowCdp == "show cdp neighbors"

ShowLldp == "show lldp neighbors"

\* clientPresentCheck 89-94: the query by MAC when the object has one, else by IP.
PresenceCommand(self) == IF Truthy(self.mac) THEN ShowMacTable ELSE ShowArpInclude

\* The answers an extraction step cannot use.
Unusable == {InvalidOut, EmptyOut, ArpText, IntBrText}

Cost(raw) == IF raw \in Unusable THEN 1 ELSE 0

\* In a MAC lookup macAddressTable sends the query clientPresentCheck sent; the
\* switch that answers it the same way again does not fail a further time.
Repeated(w, raw) == cmdLog[w][1] = ShowMacTable /\ raw = checkOut[w]

\* The switches give that many more unusable answers, within the bound.
Faulty(n) == faults + n <= MaxFaults /\ faults' = faults + n

\* connectToSwitch without its try/except: the connection error ends the thread.
ConnectNoCatch(w) ==
    /\ wpc[w] = "connect"
    /\ \E ok \in BOOLEAN :
          IF ok
          THEN /\ session' = [session EXCEPT ![w] = "open"]
               /\ Goto(w, "check", [client[w] EXCEPT !.switch_connection = w])
          ELSE /\ UNCHANGED session
               /\ Finish(w, "raised")
    /\ UNCHANGED <<requestVars, cat_details, lock, lastHolder, cmds, cmdLog, present, checkOut,
                   faults>>

\* app.py 66-68 and CatalystClientInfo.connectToSwitch
Connect(w) ==
    /\ wpc[w] = "connect"
    /\ \E ok \in BOOLEAN :
          IF ok
          THEN /\ session' = [session EXCEPT ![w] = "open"]
               /\ Goto(w, "check", [client[w] EXCEPT !.switch_connection = w])
          ELSE /\ UNCHANGED session
               /\ Finish(w, "done")
    /\ UNCHANGED <<requestVars, cat_details, lock, lastHolder, cmds, cmdLog, present, checkOut,
                   faults>>

\* The probe without "if present": extraction and publication run regardless.
CheckNoGate(w) ==
    /\ wpc[w] = "check"
    /\ \E raw \in PresenceOuts :
          LET found == clientPresentCheck(execute_switch_commands(raw))
          IN /\ Faulty(0)
             /\ present' = [present EXCEPT ![w] = IF found THEN "yes" ELSE "no"]
             /\ checkOut' = [checkOut EXCEPT ![w] = raw]
             /\ Goto(w, "hostname", client[w])
    /\ Ran(w, 1)
    /\ Sent(w, <<PresenceCommand(client[w])>>)
    /\ UNCHANGED <<requestVars, cat_details, lock, lastHolder, session>>

\* app.py 70-73 and CatalystClientInfo.clientPresentCheck
Check(w) ==
    /\ wpc[w] = "check"
    /\ \E raw \in PresenceOuts :
          LET found == clientPresentCheck(execute_switch_commands(raw))
          IN /\ Faulty(0)
             /\ present' = [present EXCEPT ![w] = IF found THEN "yes" ELSE "no"]
             /\ checkOut' = [checkOut EXCEPT ![w] = raw]
             /\ IF found THEN Goto(w, "hostname", client[w]) ELSE Finish(w, "done")
    /\ Ran(w, 1)
    /\ Sent(w, <<PresenceCommand(client[w])>>)
    /\ UNCHANGED <<requestVars, cat_details, lock, lastHolder, session>>

\* app.py 75
Hostname(w) ==
    /\ wpc[w] = "hostname"
    /\ \E raw \in HostnameOuts :
          /\ Faulty(Cost(raw))
          /\ Step(w, hostname(client[w], execute_switch_commands(raw)), "arp")
    /\ Ran(w, 1)
    /\ Sent(w, <<ShowHostname>>)
    /\ UNCHANGED <<requestVars, cat_details, lock, lastHolder, session, present, checkOut>>

\* app.py 76
ArpTable(w) ==
    /\ wpc[w] = "arp"
    /\ \E raw \in ArpOuts :
          /\ Faulty(Cost(raw))
          /\ Step(w, arpTable(client[w], execute_switch_commands(raw)), "mactable")
    /\ Ran(w, 1)
    /\ Sent(w, <<ShowArp>>)
    /\ UNCHANGED <<requestVars, cat_details, lock, lastHolder, session, present, checkOut>>

\* app.py 77
MacAddressTable(w) ==
    /\ wpc[w] = "mactable"
    /\ \E raw \in MacTableOuts :
          /\ Faulty(IF Repeated(w, raw) THEN 0 ELSE Cost(raw))
          /\ Step(w, macAddressTable(client[w], execute_switch_commands(raw)), "intstatus")
    /\ Ran(w, 1)
    /\ Sent(w, <<ShowMacTable>>)
    /\ checkOut' = [checkOut EXCEPT ![w] = NoneObj]
    /\ UNCHANGED <<requestVars, cat_details, lock, lastHolder, session, present>>

\* app.py 78
InterfaceStatus(w) ==
    /\ wpc[w] = "intstatus"
    /\ \E raw1 \in IntBrOuts, raw2 \in TrunkOuts :
          LET o1 == execute_switch_commands(raw1)
              o2 == execute_switch_commands(raw2)
          IN /\ Faulty(Cost(raw1) + Cost(raw2))
             /\ Step(w, interfaceStatus(client[w], o1, o2), "neighbors")
             /\ Ran(w, IF interfaceStatusBrief(client[w], o1).raised THEN 1 ELSE 2)
             /\ Sent(w, IF interfaceStatusBrief(client[w], o1).raised
                         THEN <<ShowIntBr>> ELSE <<ShowIntBr, ShowIntTrunk>>)
    /\ UNCHANGED <<requestVars, cat_details, lock, lastHolder, session, present, checkOut>>

\* app.py 79
NeighborInformation(w) ==
    /\ wpc[w] = "neighbors"
    /\ \E raw1 \in CdpOuts, raw2 \in LldpOuts :
          /\ Faulty(Cost(raw1) + Cost(raw2))
          /\ Step(w, neighborInformation(client[w], execute_switch_commands(raw1),
                                         execute_switch_commands(raw2)), "disconnect")
    /\ Ran(w, 2)
    /\ Sent(w, <<ShowCdp, ShowLldp>>)
    /\ UNCHANGED <<requestVars, cat_details, lock, lastHolder, session, present, checkOut>>

\* The thread that goes for the lock with its session still open.
DisconnectSkipped(w) ==
    /\ wpc[w] = "disconnect"
    /\ wpc' = [wpc EXCEPT ![w] = "lock"]
    /\ UNCHANGED <<requestVars, cat_details, lock, lastHolder, client, session, cmds, cmdLog,
                   present, checkOut, faults>>

\* app.py 82 and CatalystClientInfo.disconnectFromSwitch
Disconnect(w) ==
    /\ wpc[w] = "disconnect"
    /\ session' = [session EXCEPT ![w] = "closed"]
    /\ wpc' = [wpc EXCEPT ![w] = "lock"]
    /\ UNCHANGED <<requestVars, cat_details, lock, lastHolder, client, cmds, cmdLog, present,
                   checkOut, faults>>

\* Publication without taking the lock.
AcquireNoLock(w) ==
    /\ wpc[w] = "lock"
    /\ wpc' = [wpc EXCEPT ![w] = "publish"]
    /\ UNCHANGED <<requestVars, cat_details, lock, lastHolder, client, session, cmds, cmdLog,
                   present, checkOut, faults>>

\* app.py 85: with lock (acquire)
Acquire(w) ==
    /\ wpc[w] = "lock"
    /\ lock = 0
    /\ lock' = w
    /\ lastHolder' = w
    /\ wpc' = [wpc EXCEPT ![w] = "publish"]
    /\ UNCHANGED <<requestVars, cat_details, client, session, cmds, cmdLog, present, checkOut,
                   faults>>

\* app.py 86: cat_details = cat_client
Publish(w) ==
    /\ wpc[w] = "publish"
    /\ cat_details' = client[w]
    /\ wpc' = [wpc EXCEPT ![w] = "release"]
    /\ UNCHANGED <<requestVars, lock, lastHolder, client, session, cmds, cmdLog, present,
                   checkOut, faults>>

\* app.py 85: with lock (release), and the function returns.  The object the
\* thread built lives on: the global refers to it.
Release(w) ==
    /\ wpc[w] = "release"
    /\ lock' = 0
    /\ wpc' = [wpc EXCEPT ![w] = "done"]
    /\ UNCHANGED <<requestVars, lastHolder, cat_details, client, session, cmds, cmdLog, present,
                   checkOut, faults>>

\* One step of the probe thread of switch w.
Probe(w) ==
    \/ Connect(w)
    \/ Check(w)
    \/ Hostname(w)
    \/ ArpTable(w)
    \/ MacAddressTable(w)
    \/ InterfaceStatus(w)
    \/ NeighborInformation(w)
    \/ Disconnect(w)
    \/ Acquire(w)
    \/ Publish(w)
    \/ Release(w)

NextFleet ==
    \/ SubmitBegin
    \/ StartThread
    \/ JoinThread
    \/ AfterBarrier
    \/ \E w \in Switches : Probe(w)

SpecFleet == InitFleet /\ [][NextFleet]_vars

\* Every command sent to a switch is answered and every runnable thread gets
\* to run: some step is taken as long as one is possible.
FairSpecFleet == SpecFleet /\ WF_vars(NextFleet)

\* =============================================================== cloud phase
\* Number of networks the organization may hold.
NumNetworks == 2

\* meraki_client.py 116: the chart keeps this many entries before 'Other'.
TopN == 13

\* Code-point order of the characters that occur in names.
CharOrder == Uppers \o Lowers

Ord(c) == CHOOSE i \in 1..Len(CharOrder) : CharOrder[i] = c

\* Python's str < str.
RECURSIVE StrLess(_, _)
StrLess(a, b) ==
    IF b = <<>> THEN FALSE
    ELSE IF a = <<>> THEN TRUE
    ELSE IF Head(a) = Head(b) THEN StrLess(Tail(a), Tail(b))
    ELSE Ord(Head(a)) < Ord(Head(b))

\* --------------------------------------------------------------- ordered dict
\* A dict is the sequence of its items [k, v] in insertion order.
OHas(d, k) == \E i \in 1..Len(d) : d[i].k = k

OGet(d, k) == d[CHOOSE i \in 1..Len(d) : d[i].k = k].v

OPut(d, k, v) ==
    IF OHas(d, k)
    THEN [i \in 1..Len(d) |-> IF d[i].k = k THEN [k |-> k, v |-> v] ELSE d[i]]
    ELSE Append(d, [k |-> k, v |-> v])

OKeys(d) == {d[i].k : i \in 1..Len(d)}

\* ------------------------------------------------------------- convert_bytes
\* round() of the exact quotient a / b to an integer, ties to even.
RoundHalfEven(a, b) ==
    LET q == a \div b
        r == a % b
    IN IF 2 * r < b THEN q
       ELSE IF 2 * r > b THEN q + 1
       ELSE IF q % 2 = 0 THEN q ELSE q + 1

\* str() of a float that is h hundredths: "1.0", "1.5", "1.12".
FloatStr(h) ==
    LET f == h % 100
    IN <<ToString(h \div 100), ".">> \o
       (IF f % 10 = 0 THEN <<ToString(f \div 10)>>
        ELSE <<ToString(f \div 10), ToString(f % 10)>>)

\* meraki_client.convert_bytes
convert_bytes(num) ==
    IF num >= 1024 * 1024 THEN FloatStr(RoundHalfEven(num * 100, 1024 * 1024)) \o <<" GB">>
    ELSE IF num >= 1024 THEN FloatStr(RoundHalfEven(num * 100, 1024)) \o <<" MB">>
    ELSE <<ToString(num), " KB">>

\* round(n, 1) of a whole number of kilobytes is that number.
Round1(n) == n

\* meraki_client.create_pie_chart_key
create_pie_chart_key(name, recv, sent) ==
    name \o <<" | ">> \o convert_bytes(Round1(recv + sent)) \o <<" (">> \o
    convert_bytes(recv) \o <<", ">> \o convert_bytes(sent) \o <<")">>

\* ---------------------------------------------------- create_pie_chart_values
\* sorted(..., key=value, reverse=True) keeps equal items in their order.
RECURSIVE InsertDesc(_, _)
InsertDesc(sorted, x) ==
    IF sorted = <<>> THEN <<x>>
    ELSE IF Head(sorted).v >= x.v THEN <<Head(sorted)>> \o InsertDesc(Tail(sorted), x)
    ELSE <<x>> \o sorted

RECURSIVE SortDesc(_)
SortDesc(d) ==
    IF d = <<>> THEN <<>> ELSE InsertDesc(SortDesc(SubSeq(d, 1, Len(d) - 1)), d[Len(d)])

RECURSIVE SumValues(_)
SumValues(d) == IF d = <<>> THEN 0 ELSE Head(d).v + SumValues(Tail(d))

Min(a, b) == IF a < b THEN a ELSE b

OtherKey == <<"O", "t", "h", "e", "r">>

\* The rollup that slices the table as it came, without sorting it.
create_pie_chart_values_unsorted(app_dict) ==
    LET num_items == Min(Len(app_dict), TopN)
        head == SubSeq(app_dict, 1, num_items)
    IN IF Len(app_dict) > num_items
       THEN OPut(head, OtherKey, SumValues(SubSeq(app_dict, num_items + 1, Len(app_dict))))
       ELSE head

\* meraki_client.create_pie_chart_values
create_pie_chart_values(app_dict) ==
    LET sorted_dict == SortDesc(app_dict)
        num_items == Min(Len(sorted_dict), TopN)
        new_dict == SubSeq(sorted_dict, 1, num_items)
    IN IF Len(sorted_dict) > num_items
       THEN OPut(new_dict, OtherKey,
                 SumValues(SubSeq(sorted_dict, num_items + 1, Len(sorted_dict))))
       ELSE new_dict

\* ------------------------------------------------------------ dashboard API
ApiErr(msg) == [kind |-> "error", errors |-> <<msg>>]

Resp(list) == [kind |-> "ok", val |-> list]

NotFoundErr == ApiErr(<<"Client ", "not found">>)

OtherErr == ApiErr(<<"API rate limit exceeded">>)

\* 'not found' in a.message['errors'][0]
IsNotFound(e) == \E i \in 1..Len(e.errors[1]) : e.errors[1][i] = "not found"

\* config.ORG_NAME
ORG_NAME == "Acme"

OrgLists ==
    { << [id |-> "o1", name |-> "Other"] >>,
      << [id |-> "o1", name |-> "Other"], [id |-> "o2", name |-> "Acme"],
         [id |-> "o3", name |-> "Acme"] >> }

NetPool ==
    << <<"N1", <<"Z", "a">> >>, <<"N2", <<"a", "b">> >>, <<"N3", <<"B", "c">> >>,
       <<"N4", <<"d">> >> >>

\* getOrganizationNetworks: the organizations hold 0..NumNetworks networks.
NetworkLists(org_id) ==
    IF org_id = "o2" THEN {SubSeq(NetPool, 1, k) : k \in 0..NumNetworks}
    ELSE {<< <<"N9", <<"g">> >> >>}

WiredClient ==
    [description |-> "laptop", ip |-> "10.0.0.5", mac |-> "aa:bb:cc:dd:ee:ff",
     user |-> "ann", manufacturer |-> "Dell", os |-> "Linux",
     recentDeviceSerial |-> "Q2XX", recentDeviceName |-> "MS-1",
     recentDeviceConnection |-> "Wired", status |-> "Online", vlan |-> "10",
     ssid |-> "None", switchport |-> "3", id |-> "k1"]

WirelessClient ==
    [WiredClient EXCEPT !.recentDeviceConnection = "Wireless", !.ssid = "corp",
                        !.switchport = "None", !.recentDeviceName = "MR-1"]

DetailOuts == {NotFoundErr, OtherErr, Resp(<<>>), Resp(<<WiredClient>>),
               Resp(<<WirelessClient>>)}

App(name, recv, sent) == [application |-> name, received |-> recv, sent |-> sent]

UsageA == << [applicationUsage |-> <<App(<<"b">>, 2048, 10), App(<<"A">>, 1152, 0)>>] >>

UsageB == << [applicationUsage |-> <<App(<<"A">>, 1048576, 5), App(<<"c">>, 0, 1)>>] >>

UsageOuts == {NotFoundErr, OtherErr, Resp(UsageA), Resp(UsageB)}

\* ------------------------------------------------------------ module functions
\* The org loop of get_network_ids: the id of the first organization of that name.
RECURSIVE FindOrg(_, _)
FindOrg(orgs, org_name) ==
    IF orgs = <<>> THEN ""
    ELSE IF Head(orgs).name = org_name THEN Head(orgs).id
    ELSE FindOrg(Tail(orgs), org_name)

\* sorted(xs, key=...): stable, ascending; xs holds [key, item] pairs.
RECURSIVE InsertByKey(_, _)
InsertByKey(sorted, x) ==
    IF sorted = <<>> THEN <<x>>
    ELSE IF StrLess(x.key, Head(sorted).key) THEN <<x>> \o sorted
    ELSE <<Head(sorted)>> \o InsertByKey(Tail(sorted), x)

RECURSIVE SortByKey(_)
SortByKey(xs) ==
    IF xs = <<>> THEN <<>>
    ELSE InsertByKey(SortByKey(SubSeq(xs, 1, Len(xs) - 1)), xs[Len(xs)])

Items(xs) == [i \in 1..Len(xs) |-> xs[i].item]

\* meraki_client.sorted_list_network_names
sorted_list_network_names(network_ids) ==
    Items(SortByKey([i \in 1..Len(network_ids) |->
                        [key |-> Lower(network_ids[i][2]), item |-> network_ids[i][2]]]))

\* sorted(response[0]['applicationUsage'], key=lambda d: d['application'].lower())
SortApplications(apps) ==
    Items(SortByKey([i \in 1..Len(apps) |->
                        [key |-> Lower(apps[i].application), item |-> apps[i]]]))

\* ------------------------------------------------------------ MerakiClientInfo
\* MerakiClientInfo.__init__, once get_network_ids has returned a list.
MerakiClientInfo(mac, net_ids) ==
    [mac |-> mac, net_ids |-> net_ids,
     sorted_net_names |-> sorted_list_network_names(net_ids),
     clientDetails |-> NoneObj, usage |-> NoneObj, usage_pie_chart |-> NoneObj]

\* client_detail_history, the dictionary built from response[0].
client_details_minimized(c) ==
    LET base == [description |-> c.description, ip |-> c.ip, mac |-> c.mac, user |-> c.user,
                 manufacturer |-> c.manufacturer, os |-> c.os,
                 recentDeviceSerial |-> c.recentDeviceSerial,
                 recentDeviceName |-> c.recentDeviceName,
                 recentDeviceConnection |-> c.recentDeviceConnection,
                 status |-> c.status, vlan |-> c.vlan]
    IN IF base.recentDeviceConnection = "Wireless"
       THEN DictSet(base, "ssid", c.ssid)
       ELSE DictSet(base, "switchport", c.switchport)

\* A loop body that demands "not found" of an API error before it skips the network.
client_detail_network_strict(details, network, r) ==
    IF r.kind = "error"
    THEN IF IsNotFound(r) THEN Ok(details) ELSE Raise(details)
    ELSE IF Len(r.val) > 0
         THEN Ok([details EXCEPT !.networks =
                     Append(@, [network_name |-> network[2],
                                client_details |-> client_details_minimized(r.val[1])])])
         ELSE Ok(details)

\* client_detail_history, one turn of the loop over self.net_ids, given what
\* getNetworkClients answered.
client_detail_network(details, network, r) ==
    IF r.kind = "error"
    THEN Ok(details)
    ELSE IF Len(r.val) > 0
         THEN Ok([details EXCEPT !.networks =
                     Append(@, [network_name |-> network[2],
                                client_details |-> client_details_minimized(r.val[1])])])
         ELSE Ok(details)

\* The application loop with "=" where the summary needs "+=".
RECURSIVE AddApplicationsOverwrite(_, _)
AddApplicationsOverwrite(st, applications) ==
    IF applications = <<>> THEN st
    ELSE LET application == Head(applications)
             name == application.application
             new_name == create_pie_chart_key(name, application.received, application.sent)
         IN AddApplicationsOverwrite(
               [net |-> OPut(st.net, name, <<convert_bytes(application.received),
                                             convert_bytes(application.sent)>>),
                pie |-> OPut(st.pie, new_name,
                             Round1(application.received + application.sent)),
                summary |-> OPut(st.summary, name,
                                 <<application.received, application.sent>>)],
               Tail(applications))

\* app_usage_history, the loop over the applications of one network.
\* st holds net (net_app_usage), pie (net_app_usage_pie_chart), summary.
RECURSIVE AddApplications(_, _)
AddApplications(st, applications) ==
    IF applications = <<>> THEN st
    ELSE LET application == Head(applications)
             name == application.application
             new_name == create_pie_chart_key(name, application.received, application.sent)
         IN AddApplications(
               [net |-> OPut(st.net, name, <<convert_bytes(application.received),
                                             convert_bytes(application.sent)>>),
                pie |-> OPut(st.pie, new_name,
                             Round1(application.received + application.sent)),
                summary |-> IF ~OHas(st.summary, name)
                            THEN OPut(st.summary, name,
                                      <<application.received, application.sent>>)
                            ELSE OPut(st.summary, name,
                                      <<OGet(st.summary, name)[1] + application.received,
                                        OGet(st.summary, name)[2] + application.sent>>)],
               Tail(applications))

\* The result of one turn of the usage loop: go on, or return from the method.
Continue(usage, pie) == [returned |-> FALSE, usage |-> usage, pie |-> pie]

Return(usage, pie) == [returned |-> TRUE, usage |-> usage, pie |-> pie]

NetEntry(network, applications) ==
    [network_name |-> network[2], applications |-> applications]

\* app_usage_history, one turn of the loop over self.net_ids, given what
\* getNetworkClientsApplicationUsage answered.
app_usage_network(usage, pie, network, r) ==
    IF r.kind = "error"
    THEN IF IsNotFound(r)
         THEN Continue([usage EXCEPT !.networks = Append(@, NetEntry(network, <<>>))],
                       [pie EXCEPT !.networks = Append(@, NetEntry(network, <<>>))])
         ELSE Return(usage, pie)
    ELSE LET applications == SortApplications(r.val[1].applicationUsage)
             st == AddApplications([net |-> <<>>, pie |-> <<>>, summary |-> usage.summary],
                                   applications)
         IN Continue([usage EXCEPT !.summary = st.summary,
                                   !.networks = Append(@, NetEntry(network, st.net))],
                     [pie EXCEPT !.networks =
                         Append(@, NetEntry(network, create_pie_chart_values(st.pie)))])

\* app_usage_history 270-280: the loop that converts the summary.
RECURSIVE ConvertSummary(_, _, _)
ConvertSummary(summary, pieSummary, i) ==
    IF i > Len(summary) THEN [summary |-> summary, pie |-> pieSummary]
    ELSE LET app == summary[i].k
             raw_received == summary[i].v[1]
             raw_sent == summary[i].v[2]
         IN ConvertSummary(
               OPut(summary, app, <<convert_bytes(raw_received), convert_bytes(raw_sent)>>),
               OPut(pieSummary, create_pie_chart_key(app, raw_received, raw_sent),
                    Round1(raw_received + raw_sent)),
               i + 1)

\* ------------------------------------------------------ report assembly
\* The first entry of that network name ("for net in ...: if ...: break").
HasNet(nets, name) == \E i \in 1..Len(nets) : nets[i].network_name = name

FirstNet(nets, name) ==
    nets[CHOOSE i \in 1..Len(nets) :
            /\ nets[i].network_name = name
            /\ \A j \in 1..(i - 1) : nets[j].network_name # name]

\* submit() 258-269
network_client_details(names, nets) ==
    [i \in 1..Len(names) |->
        IF HasNet(nets, names[i])
        THEN <<names[i], FirstNet(nets, names[i]).client_details>>
        ELSE <<names[i], NoneObj>>]

Unbound == [bound |-> FALSE]

Bound(x) == [bound |-> TRUE, val |-> x]

\* submit() 275-287: target_usage and target_usage_pie_chart keep their value
\* from one network to the next, and are unbound until first assigned.
RECURSIVE network_applications(_, _, _, _, _, _)
network_applications(names, usageNets, pieNets, target_usage, target_usage_pie_chart, acc) ==
    IF names = <<>> THEN Ok(acc)
    ELSE LET network == Head(names)
             tu == IF HasNet(usageNets, network)
                   THEN Bound(FirstNet(usageNets, network).applications)
                   ELSE target_usage
             tp == IF HasNet(pieNets, network)
                   THEN Bound(FirstNet(pieNets, network).applications)
                   ELSE target_usage_pie_chart
         IN IF ~tu.bound \/ ~tp.bound THEN Raise(acc)
            ELSE network_applications(Tail(names), usageNets, pieNets, tu, tp,
                                      Append(acc, <<network, tu.val, tp.val>>))

\* ------------------------------------- meraki_client_information and after
fleetDone == <<mac_address, ip_address, threadIdx, cat_details, lock, lastHolder, wpc, client,
               session, cmds, cmdLog, present, checkOut, faults>>

Called(endpoint) == apiCalls' = [apiCalls EXCEPT ![endpoint] = @ + 1]

\* get_network_ids without its "if org_id == ''": the networks are listed
\* for whatever org_id the loop left.
MerakiInitNoOrgCheck ==
    /\ submitPc = "meraki"
    /\ \E orgs \in OrgLists :
          LET org_id == FindOrg(orgs, ORG_NAME)
          IN /\ orgsResp' = Bound(orgs)
             /\ \E networks \in NetworkLists(org_id) :
                   meraki_client' = MerakiClientInfo(mac_address, networks)
             /\ apiCalls' = [apiCalls EXCEPT !.orgs = @ + 1, !.networks = @ + 1]
             /\ submitPc' = "details"
    /\ UNCHANGED <<fleetDone, chartVars, sharedVars, meraki_details, progress, netIdx,
                   client_details, app_usage, app_usage_pie_chart, detailResp, usageResp,
                   report>>

\* app.py 240, 99: MerakiClientInfo(mac, time_period); get_network_ids returning
\* None makes sorted_list_network_names raise.
MerakiInit ==
    /\ submitPc = "meraki"
    /\ \E orgs \in OrgLists :
          LET org_id == FindOrg(orgs, ORG_NAME)
          IN /\ orgsResp' = Bound(orgs)
             /\ IF org_id = ""
                THEN /\ Called("orgs")
                     /\ submitPc' = "raised"
                     /\ UNCHANGED meraki_client
                ELSE /\ \E networks \in NetworkLists(org_id) :
                           meraki_client' = MerakiClientInfo(mac_address, networks)
                     /\ apiCalls' = [apiCalls EXCEPT !.orgs = @ + 1, !.networks = @ + 1]
                     /\ submitPc' = "details"
    /\ UNCHANGED <<fleetDone, chartVars, sharedVars, meraki_details, progress, netIdx,
                   client_details, app_usage, app_usage_pie_chart, detailResp, usageResp,
                   report>>

\* client_detail_history that goes into the loop whatever the MAC.
DetailsBeginNoCheck ==
    /\ submitPc = "details"
    /\ client_details' = [client_mac |-> meraki_client.mac, networks |-> <<>>]
    /\ submitPc' = "details_loop"
    /\ netIdx' = 1
    /\ UNCHANGED <<meraki_client, progress>>
    /\ UNCHANGED <<fleetDone, chartVars, sharedVars, orgsResp, meraki_details, app_usage,
                   app_usage_pie_chart, apiCalls, detailResp, usageResp, report>>

\* client_detail_history 145-151 (and app.py 106 when it returns at once)
DetailsBegin ==
    /\ submitPc = "details"
    /\ IF ~Truthy(meraki_client.mac)
       THEN /\ meraki_client' = [meraki_client EXCEPT !.clientDetails =
                                    [client_mac |-> meraki_client.mac, networks |-> <<>>]]
            /\ progress' = 50
            /\ submitPc' = "usage"
            /\ UNCHANGED <<client_details, netIdx>>
       ELSE /\ client_details' = [client_mac |-> meraki_client.mac, networks |-> <<>>]
            /\ submitPc' = "details_loop"
            /\ netIdx' = 1
            /\ UNCHANGED <<meraki_client, progress>>
    /\ UNCHANGED <<fleetDone, chartVars, sharedVars, orgsResp, meraki_details, app_usage,
                   app_usage_pie_chart, apiCalls, detailResp, usageResp, report>>

\* client_detail_history 153-192: one network
DetailsNetwork ==
    /\ submitPc = "details_loop"
    /\ netIdx <= Len(meraki_client.net_ids)
    /\ \E r \in DetailOuts :
          LET res == client_detail_network(client_details, meraki_client.net_ids[netIdx], r)
          IN /\ detailResp' = Append(detailResp, r)
             /\ IF res.raised
                THEN /\ submitPc' = "raised"
                     /\ client_details' = NoneObj
                     /\ netIdx' = 0
                ELSE /\ submitPc' = "details_loop"
                     /\ client_details' = res.self
                     /\ netIdx' = netIdx + 1
    /\ Called("clients")
    /\ UNCHANGED <<fleetDone, chartVars, sharedVars, orgsResp, meraki_details, progress,
                   meraki_client, app_usage, app_usage_pie_chart, usageResp, report>>

\* client_detail_history 194, app.py 106
DetailsEnd ==
    /\ submitPc = "details_loop"
    /\ netIdx > Len(meraki_client.net_ids)
    /\ meraki_client' = [meraki_client EXCEPT !.clientDetails = client_details]
    /\ client_details' = NoneObj
    /\ netIdx' = 0
    /\ progress' = 50
    /\ submitPc' = "usage"
    /\ UNCHANGED <<fleetDone, chartVars, sharedVars, orgsResp, meraki_details, app_usage,
                   app_usage_pie_chart, apiCalls, detailResp, usageResp, report>>

\* app_usage_history returns: app.py 113-115
UsageReturns(obj) ==
    /\ meraki_client' = obj
    /\ meraki_details' = obj
    /\ progress' = 75
    /\ app_usage' = NoneObj
    /\ app_usage_pie_chart' = NoneObj
    /\ netIdx' = 0
    /\ submitPc' = "assemble"

\* app_usage_history 200-209
UsageBegin ==
    /\ submitPc = "usage"
    /\ LET fresh == [client_mac |-> meraki_client.mac, summary |-> <<>>, networks |-> <<>>]
       IN IF ~Truthy(meraki_client.mac)
          THEN UsageReturns([meraki_client EXCEPT !.usage = fresh])
          ELSE /\ app_usage' = fresh
               /\ app_usage_pie_chart' = fresh
               /\ netIdx' = 1
               /\ submitPc' = "usage_loop"
               /\ UNCHANGED <<meraki_client, meraki_details, progress>>
    /\ UNCHANGED <<fleetDone, chartVars, sharedVars, orgsResp, client_details, apiCalls,
                   detailResp, usageResp, report>>

\* app_usage_history 211-268: one network
UsageNetwork ==
    /\ submitPc = "usage_loop"
    /\ netIdx <= Len(meraki_client.net_ids)
    /\ \E r \in UsageOuts :
          LET res == app_usage_network(app_usage, app_usage_pie_chart,
                                       meraki_client.net_ids[netIdx], r)
          IN /\ usageResp' = Append(usageResp, r)
             /\ IF res.returned
                THEN UsageReturns(meraki_client)
                ELSE /\ app_usage' = res.usage
                     /\ app_usage_pie_chart' = res.pie
                     /\ netIdx' = netIdx + 1
                     /\ UNCHANGED <<submitPc, meraki_client, meraki_details, progress>>
    /\ Called("usage")
    /\ UNCHANGED <<fleetDone, chartVars, sharedVars, orgsResp, client_details, detailResp,
                   report>>

\* app_usage_history 270-286, app.py 113-115
UsageEnd ==
    /\ submitPc = "usage_loop"
    /\ netIdx > Len(meraki_client.net_ids)
    /\ LET conv == ConvertSummary(app_usage.summary, app_usage_pie_chart.summary, 1)
       IN UsageReturns([meraki_client EXCEPT
             !.usage = [app_usage EXCEPT !.summary = conv.summary],
             !.usage_pie_chart = [app_usage_pie_chart EXCEPT
                                     !.summary = create_pie_chart_values(conv.pie)]])
    /\ UNCHANGED <<fleetDone, chartVars, sharedVars, orgsResp, client_details, apiCalls,
                   detailResp, usageResp, report>>

\* app.py 242-289
Assemble ==
    /\ submitPc = "assemble"
    /\ LET names == meraki_details.sorted_net_names
           cdp == IF cat_details # NoneObj THEN <<"cdp", cat_details.cdp>> ELSE NoneObj
           lldp == IF cat_details # NoneObj THEN <<"lldp", cat_details.lldp>> ELSE NoneObj
           details == network_client_details(names, meraki_details.clientDetails.networks)
       IN IF meraki_details.usage = NoneObj \/ meraki_details.usage_pie_chart = NoneObj
          THEN submitPc' = "raised" /\ UNCHANGED <<report, progress>>
          ELSE LET tables == network_applications(names, meraki_details.usage.networks,
                                 meraki_details.usage_pie_chart.networks,
                                 Unbound, Unbound, <<>>)
               IN IF tables.raised
                  THEN submitPc' = "raised" /\ UNCHANGED <<report, progress>>
                  ELSE /\ report' =
                            [network_names |-> names,
                             mac_address |-> meraki_details.mac,
                             summary_table |-> <<"summary", meraki_details.usage.summary,
                                                 meraki_details.usage_pie_chart.summary>>,
                             network_tables |-> tables.self,
                             details_tables |-> details,
                             cat_details_table |-> cat_details,
                             cat_details_table_cdp |-> cdp,
                             cat_details_table_lldp |-> lldp]
                       /\ progress' = 100
                       /\ submitPc' = "done"
    /\ UNCHANGED <<fleetDone, chartVars, sharedVars, orgsResp, meraki_details, meraki_client,
                   netIdx, client_details, app_usage, app_usage_pie_chart, apiCalls, detailResp,
                   usageResp>>

\* What mac_address may hold when the probe phase is over: None (an IP lookup
\* without a match), '' or the MAC of the form, or the MAC of the match.
CloudMacs == {None, EmptyStr, FormMac}

\* A lookup whose probe phase found no switch holding the client.
InitCloud ==
    /\ submitPc = "meraki"
    /\ mac_address \in CloudMacs
    /\ ip_address = (IF mac_address = None THEN FormIp ELSE None)
    /\ threadIdx = 0
    /\ cat_details = NoneObj
    /\ meraki_details = NoneObj
    /\ progress = 25
    /\ lock = 0
    /\ lastHolder = 0
    /\ wpc = [w \in Switches |-> "done"]
    /\ client = [w \in Switches |-> NoneObj]
    /\ session = [w \in Switches |-> "none"]
    /\ cmds = [w \in Switches |-> 0]
    /\ cmdLog = [w \in Switches |-> <<>>]
    /\ present = [w \in Switches |-> "unknown"]
    /\ checkOut = [w \in Switches |-> NoneObj]
    /\ faults = 0
    /\ CloudIdle
    /\ ChartIdle
    /\ SharedIdle

NextCloud ==
    \/ MerakiInit
    \/ DetailsBegin
    \/ DetailsNetwork
    \/ DetailsEnd
    \/ UsageBegin
    \/ UsageNetwork
    \/ UsageEnd
    \/ Assemble

SpecCloud == InitCloud /\ [][NextCloud]_vars

\* ============================================ create_pie_chart_values alone
\* Largest number of entries of a usage table handed to the rollup.
MaxApps == 15

\* How the totals of a table run along its entries: rising, falling, all
\* equal, distinct in no order, and repeating with zeros.
Shapes == {"asc", "desc", "ties", "perm", "mixed"}

ChartValue(shape, i, n) ==
    CASE shape = "asc" -> i
      [] shape = "desc" -> n + 1 - i
      [] shape = "ties" -> 5
      [] shape = "perm" -> (i * 7) % 17
      [] OTHER -> (i * 3) % 4

\* app_usage_history 246-248: the chart entry of one application; entry p of
\* the table is filed under the bare key 'Other' instead.
ChartEntry(shape, i, n, p) ==
    LET application == App(<<"app", ToString(i)>>, ChartValue(shape, i, n), 1)
    IN [k |-> IF i = p THEN OtherKey
              ELSE create_pie_chart_key(application.application, application.received,
                                        application.sent),
        v |-> Round1(application.received + application.sent)]

ChartInputs ==
    UNION {{[i \in 1..n |-> ChartEntry(shape, i, n, p)] : p \in 0..n, shape \in Shapes} :
              n \in 0..MaxApps}

InitChart ==
    /\ FleetIdle
    /\ CloudIdle
    /\ chartArg \in ChartInputs
    /\ chartRet = NoneObj
    /\ SharedIdle

\* meraki_client.py 267, 283: a call of create_pie_chart_values
Rollup ==
    /\ chartRet = NoneObj
    /\ chartRet' = Bound(create_pie_chart_values(chartArg))
    /\ UNCHANGED <<fleetVars, cloudVars, chartArg, sharedVars>>

NextChart == Rollup

SpecChart == InitChart /\ [][NextChart]_vars

\* ================================================== requests side by side
\* app.py 543: app.run(port=5000) serves every request on a thread of its own,
\* and app.py 39-49: cat_details, meraki_details, progress and lock are globals
\* of the module, the same ones for every request.
\*
\* The form of request r: a MAC address of its own, no IP address.
ReqMac(r) == SubSeq(FormMac, 1, Len(FormMac) - 1) \o <<ToString(r)>>

\* The thread of request r for switch w, among all probe threads.
Holder(r, w) == (r - 1) * NumSwitches + w

\* app.py 75-79 on a switch that holds the client and answers every command.
Extracted(self) ==
    LET a == hostname(self, execute_switch_commands(HostnameText)).self
        b == arpTable(a, execute_switch_commands(ArpRows)).self
        c == macAddressTable(b, execute_switch_commands(MacTableText)).self
        d == interfaceStatus(c, execute_switch_commands(IntBrRows),
                             execute_switch_commands(TrunkAccessText)).self
    IN neighborInformation(d, execute_switch_commands(CdpRows),
                           execute_switch_commands(LldpRows)).self

\* app.py 186-222 of request r: clear the globals, read the form.
ReqSubmit(r) ==
    /\ reqPc[r] = "idle"
    /\ cat_details' = NoneObj
    /\ meraki_details' = NoneObj
    /\ progress' = 0
    /\ reqPc' = [reqPc EXCEPT ![r] = "start"]
    /\ UNCHANGED <<submitPc, mac_address, ip_address, threadIdx, lock, lastHolder, wpc, client,
                   session, cmds, cmdLog, present, checkOut, faults, cloudVars, chartVars,
                   reqSaw, thrPc, thrClient>>

\* app.py 225-226 of request r: x.start(), in the order of the list.
ReqStart(r, w) ==
    /\ reqPc[r] = "start"
    /\ thrPc[r][w] = "new"
    /\ \A v \in 1..(w - 1) : thrPc[r][v] # "new"
    /\ thrPc' = [thrPc EXCEPT ![r][w] = "probe"]
    /\ thrClient' = [thrClient EXCEPT ![r][w] = CatalystClientInfo(ReqMac(r), None)]
    /\ reqPc' = [reqPc EXCEPT ![r] = IF w = NumSwitches THEN "join" ELSE "start"]
    /\ UNCHANGED <<fleetVars, cloudVars, chartVars, reqSaw>>

\* app.py 63-82 of a probe thread: connect, look for the client, extract,
\* disconnect.  All of it works on the thread's own cat_client and session, so
\* it is one step here: the switch holds the client or it does not.
ThreadProbe(r, w) ==
    /\ thrPc[r][w] = "probe"
    /\ \E found \in BOOLEAN :
          IF found
          THEN /\ thrClient' = [thrClient EXCEPT ![r][w] =
                                   Extracted([@ EXCEPT !.switch_connection = w])]
               /\ thrPc' = [thrPc EXCEPT ![r][w] = "acquire"]
          ELSE /\ thrClient' = [thrClient EXCEPT ![r][w] = NoneObj]
               /\ thrPc' = [thrPc EXCEPT ![r][w] = "done"]
    /\ UNCHANGED <<fleetVars, cloudVars, chartVars, reqPc, reqSaw>>

\* app.py 85: with lock (acquire)
ThreadAcquire(r, w) ==
    /\ thrPc[r][w] = "acquire"
    /\ lock = 0
    /\ lock' = Holder(r, w)
    /\ lastHolder' = Holder(r, w)
    /\ thrPc' = [thrPc EXCEPT ![r][w] = "publish"]
    /\ UNCHANGED <<submitPc, mac_address, ip_address, threadIdx, cat_details, meraki_details,
                   progress, wpc, client, session, cmds, cmdLog, present, checkOut, faults,
                   cloudVars, chartVars, reqPc, reqSaw, thrClient>>

\* app.py 86: cat_details = cat_client
ThreadPublish(r, w) ==
    /\ thrPc[r][w] = "publish"
    /\ cat_details' = thrClient[r][w]
    /\ thrPc' = [thrPc EXCEPT ![r][w] = "release"]
    /\ UNCHANGED <<submitPc, mac_address, ip_address, threadIdx, meraki_details, progress, lock,
                   lastHolder, wpc, client, session, cmds, cmdLog, present, checkOut, faults,
                   cloudVars, chartVars, reqPc, reqSaw, thrClient>>

\* app.py 85: with lock (release), and the thread returns.
ThreadRelease(r, w) ==
    /\ thrPc[r][w] = "release"
    /\ lock' = 0
    /\ thrPc' = [thrPc EXCEPT ![r][w] = "done"]
    /\ UNCHANGED <<submitPc, mac_address, ip_address, threadIdx, cat_details, meraki_details,
                   progress, lastHolder, wpc, client, session, cmds, cmdLog, present, checkOut,
                   faults, cloudVars, chartVars, reqPc, reqSaw, thrClient>>

\* app.py 229-230 of request r: every x.join() has returned.
ReqJoin(r) ==
    /\ reqPc[r] = "join"
    /\ \A w \in Switches : thrPc[r][w] = "done"
    /\ reqPc' = [reqPc EXCEPT ![r] = "joined"]
    /\ UNCHANGED <<fleetVars, cloudVars, chartVars, reqSaw, thrPc, thrClient>>

\* app.py 232-245 of request r: progress = 25 and the reads of cat_details.
ReqRead(r) ==
    /\ reqPc[r] = "joined"
    /\ progress' = 25
    /\ reqSaw' = [reqSaw EXCEPT ![r] = cat_details]
    /\ reqPc' = [reqPc EXCEPT ![r] = "meraki"]
    /\ UNCHANGED <<submitPc, mac_address, ip_address, threadIdx, cat_details, meraki_details,
                   lock, lastHolder, wpc, client, session, cmds, cmdLog, present, checkOut,
                   faults, cloudVars, chartVars, thrPc, thrClient>>

\* app.py 161-176: index(), the landing page, clears the globals as well.
Index ==
    /\ cat_details' = NoneObj
    /\ meraki_details' = NoneObj
    /\ progress' = 0
    /\ UNCHANGED <<submitPc, mac_address, ip_address, threadIdx, lock, lastHolder, wpc, client,
                   session, cmds, cmdLog, present, checkOut, faults, cloudVars, chartVars,
                   sharedVars>>

InitShared == FleetIdle /\ CloudIdle /\ ChartIdle /\ SharedIdle

NextShared ==
    \/ Index
    \/ \E r \in Requests : ReqSubmit(r)
    \/ \E r \in Requests : ReqJoin(r)
    \/ \E r \in Requests : ReqRead(r)
    \/ \E r \in Requests, w \in Switches : ReqStart(r, w)
    \/ \E r \in Requests, w \in Switches : ThreadProbe(r, w)
    \/ \E r \in Requests, w \in Switches : ThreadAcquire(r, w)
    \/ \E r \in Requests, w \in Switches : ThreadPublish(r, w)
    \/ \E r \in Requests, w \in Switches : ThreadRelease(r, w)

SpecShared == InitShared /\ [][NextShared]_vars

\* ======================================================== probe phase claims
\* The caller is past the join loop.
PastBarrier == submitPc \in {"joined", "meraki", "raised"}

\* The thread of w opened a session on its switch.
Opened(w) == session[w] # "none"

\* The thread of w was started and could not connect.
ConnectFailed(w) == Terminated(w) /\ session[w] = "none"

\* C1: every probe thread that opened a session has disconnected it by the
\* time the thread ends, whether the client was present, absent, or an
\* extraction step failed.
C1_DisconnectBeforeEnd ==
    \A w \in Switches : (Terminated(w) /\ Opened(w)) => session[w] = "closed"

\* C2: the caller is past the join loop (where it reads cat_details) only when
\* every probe thread of the lookup has ended and none holds the lock, so no
\* thread can write the slot once the caller has started reading it.
C2_ReadAfterAllEnded ==
    PastBarrier => (lock = 0 /\ \A w \in Switches : Terminated(w))

C2_Witness ==
    /\ submitPc = "meraki"
    /\ cat_details # NoneObj
    /\ \E w \in Switches : cat_details.switch_connection # w /\ Opened(w)

\* C3: the slot only ever holds the record of a thread whose presence check
\* was positive; and when exactly one switch reported the client present and
\* its extraction went through, the slot after the barrier is exactly the
\* record that thread built.
C3_OnlyMatchInSlot ==
    /\ cat_details # NoneObj => present[cat_details.switch_connection] = "yes"
    /\ PastBarrier =>
          \A w \in Switches :
             ( /\ present[w] = "yes"
               /\ wpc[w] = "done"
               /\ \A v \in Switches \ {w} : present[v] # "yes" )
             => (cat_details # NoneObj /\ cat_details = client[w])

C3_Witness ==
    /\ submitPc = "meraki"
    /\ cat_details # NoneObj
    /\ \E w \in Switches :
          /\ present[w] = "yes"
          /\ cat_details = client[w]
          /\ cat_details.interface = "Gi1/0/1"
          /\ \A v \in Switches \ {w} : present[v] = "no"

\* C4: a step of a probe thread changes none of the other globals
\* (meraki_details, progress), changes cat_details only while that thread
\* holds the lock, and only if the thread connected and found the client.
C4_WorkersWriteOnlySlotUnderLock ==
    [][\A w \in Switches :
          Probe(w) =>
             /\ meraki_details' = meraki_details
             /\ progress' = progress
             /\ cat_details' # cat_details =>
                   (lock = w /\ Opened(w) /\ present[w] = "yes")]_vars

C4_Witness ==
    /\ \E w \in Switches : cat_details # NoneObj /\ wpc[w] = "release" /\ lock = w
    /\ \E v \in Switches : ConnectFailed(v) \/ present[v] = "no"

\* A thread whose connection failed ended by returning, ran no command and
\* never wrote the slot; past the barrier, in a lookup with such a thread,
\* every other thread has ended too and, if a thread found the client and
\* finished its extraction, the slot holds the record of such a thread.
ConnectFailureIsolated ==
    /\ \A w \in Switches :
          ConnectFailed(w) =>
             /\ wpc[w] = "done"
             /\ cmds[w] = 0
             /\ present[w] = "unknown"
             /\ cat_details # NoneObj => cat_details.switch_connection # w
    /\ (PastBarrier /\ \E w \in Switches : ConnectFailed(w)) =>
          /\ \A v \in Switches : Terminated(v)
          /\ \A v \in Switches :
                (present[v] = "yes" /\ wpc[v] = "done") =>
                   (cat_details # NoneObj /\ present[cat_details.switch_connection] = "yes"
                    /\ wpc[cat_details.switch_connection] = "done")

\* C5: a switch whose connection attempt fails is skipped (its thread returns
\* without an exception, runs no command, never writes the slot), the other
\* threads are not held up by it and a matching one still publishes, and the
\* lookup gets past its barrier.
C5_ConnectFailureSkipped ==
    /\ []ConnectFailureIsolated
    /\ (\E w \in Switches : ConnectFailed(w)) ~> PastBarrier

C5_Witness ==
    /\ submitPc = "meraki"
    /\ \E w \in Switches : ConnectFailed(w)
    /\ cat_details # NoneObj
    /\ \E v \in Switches : cat_details = client[v] /\ present[v] = "yes"

\* C6: once the presence check was positive, extraction never aborts: no
\* command answer (rejected, empty, unparseable) ends the thread with an
\* exception before it has published its record.
C6_ExtractionNeverAborts ==
    \A w \in Switches : present[w] = "yes" => wpc[w] # "raised"

\* ======================================================== cloud phase claims
\* The MerakiClientInfo exists and client_detail_history has set clientDetails.
DetailsSet == meraki_client # NoneObj /\ meraki_client.clientDetails # NoneObj

\* The MerakiClientInfo exists and app_usage_history has set usage.
UsageSet == meraki_client # NoneObj /\ meraki_client.usage # NoneObj

IsOtherError(r) == r.kind = "error" /\ ~IsNotFound(r)

\* The names of the networks whose answer held a client record, in loop order.
RECURSIVE FoundNames(_, _)
FoundNames(resps, net_ids) ==
    IF resps = <<>> THEN <<>>
    ELSE (IF Head(resps).kind = "ok" /\ Len(Head(resps).val) > 0
          THEN <<Head(net_ids)[2]>> ELSE <<>>)
         \o FoundNames(Tail(resps), Tail(net_ids))

NetNames(nets) == [i \in 1..Len(nets) |-> nets[i].network_name]

C8_OtherErrorSurfaced ==
    /\ submitPc = "usage_loop" =>
          \A i \in 1..Len(usageResp) :
             (usageResp[i].kind = "error" /\ IsNotFound(usageResp[i])) =>
                /\ app_usage.networks[i] = NetEntry(meraki_client.net_ids[i], <<>>)
                /\ app_usage_pie_chart.networks[i] = NetEntry(meraki_client.net_ids[i], <<>>)
    /\ (\E i \in 1..Len(usageResp) : IsOtherError(usageResp[i])) => submitPc = "raised"

\* C9: with an empty MAC (None or '') client_detail_history leaves a result
\* with an empty networks list and has made no getNetworkClients call.
C9_EmptyMacNoCalls ==
    (DetailsSet /\ ~Truthy(meraki_client.mac)) =>
        /\ meraki_client.clientDetails.networks = <<>>
        /\ apiCalls.clients = 0
        /\ detailResp = <<>>

C9_Witness ==
    /\ DetailsSet
    /\ meraki_client.mac = EmptyStr
    /\ Len(meraki_client.net_ids) = NumNetworks
    /\ submitPc = "usage"

\* The applications named in the answers, and the total of one of their counters.
RespApps(r) == IF r.kind = "ok" THEN r.val[1].applicationUsage ELSE <<>>

AppNames(resps) ==
    UNION {{RespApps(resps[i])[j].application : j \in 1..Len(RespApps(resps[i]))} :
              i \in 1..Len(resps)}

RECURSIVE SumApps(_, _, _)
SumApps(apps, name, f) ==
    IF apps = <<>> THEN 0
    ELSE (IF Head(apps).application = name THEN Head(apps)[f] ELSE 0)
         + SumApps(Tail(apps), name, f)

RECURSIVE SumResps(_, _, _)
SumResps(resps, name, f) ==
    IF resps = <<>> THEN 0
    ELSE SumApps(RespApps(Head(resps)), name, f) + SumResps(Tail(resps), name, f)

\* C10: when the loop of app_usage_history has run over every network, the
\* summary holds one entry per application named in any network's answer, and
\* its raw received and sent totals are the sums of that application's values
\* over the networks; the finished usage['summary'] holds those totals converted.
C10_SummaryIsSum ==
    /\ (submitPc = "usage_loop" /\ netIdx > Len(meraki_client.net_ids)) =>
          /\ OKeys(app_usage.summary) = AppNames(usageResp)
          /\ Len(app_usage.summary) = Cardinality(AppNames(usageResp))
          /\ \A name \in AppNames(usageResp) :
                OGet(app_usage.summary, name) =
                   <<SumResps(usageResp, name, "received"), SumResps(usageResp, name, "sent")>>
    /\ UsageSet =>
          /\ OKeys(meraki_client.usage.summary) = AppNames(usageResp)
          /\ Len(meraki_client.usage.summary) = Cardinality(AppNames(usageResp))
          /\ \A name \in AppNames(usageResp) :
                OGet(meraki_client.usage.summary, name) =
                   <<convert_bytes(SumResps(usageResp, name, "received")),
                     convert_bytes(SumResps(usageResp, name, "sent"))>>

C10_Witness ==
    /\ UsageSet
    /\ usageResp = <<Resp(UsageA), Resp(UsageB)>>
    /\ OGet(meraki_client.usage.summary, <<"A">>) =
          <<convert_bytes(1152 + 1048576), convert_bytes(5)>>

\* ======================================================= chart rollup claims
\* The call of create_pie_chart_values has returned.
ChartDone == chartRet # NoneObj

Entries(d) == {d[i] : i \in 1..Len(d)}

DistinctValues(d) == \A i, j \in 1..Len(d) : i # j => d[i].v # d[j].v

\* The table was built from applications: every key is a chart key.
FromApplications(d) == ~OHas(d, OtherKey)

\* C12: of more than 13 applications with distinct totals the rollup keeps
\* exactly the 13 largest, as they were and largest first, and adds one
\* 'Other' entry holding the sum of all the rest; of 13 applications or
\* fewer it keeps every entry and adds no 'Other'.
C12_TopThirteenAndOther ==
    (ChartDone /\ FromApplications(chartArg) /\ DistinctValues(chartArg)) =>
       LET out == chartRet.val
       IN IF Len(chartArg) > TopN
          THEN /\ Len(out) = TopN + 1
               /\ \A i \in 1..TopN : out[i] \in Entries(chartArg)
               /\ \A i \in 1..(TopN - 1) : out[i].v > out[i + 1].v
               /\ \A e \in Entries(chartArg) :
                     e \notin {out[i] : i \in 1..TopN} => e.v < out[TopN].v
               /\ out[TopN + 1].k = OtherKey
               /\ out[TopN + 1].v = SumValues(chartArg) - SumValues(SubSeq(out, 1, TopN))
          ELSE /\ Len(out) = Len(chartArg)
               /\ Entries(out) = Entries(chartArg)
               /\ \A i \in 1..(Len(out) - 1) : out[i].v > out[i + 1].v
               /\ ~OHas(out, OtherKey)

C12_Witness ==
    /\ ChartDone
    /\ FromApplications(chartArg)
    /\ DistinctValues(chartArg)
    /\ Len(chartArg) > TopN + 1
    /\ chartArg[1].v < chartArg[2].v
    /\ Len(chartRet.val) = TopN + 1
    /\ chartRet.val[TopN + 1].v > chartRet.val[TopN].v

\* ================================================= probe phase claims, more
\* C13: once the lookup is past its barrier with a published match record,
\* the record holds both a MAC and an IP address, whether the lookup started
\* from a MAC or from an IP, also when the ARP query gave no row.
C13_MatchHasMacAndIp ==
    (PastBarrier /\ cat_details # NoneObj /\ (mac_address = FormMac \/ ip_address = FormIp)) =>
       (cat_details.mac # None /\ cat_details.lan_ip # None)

\* ================================================= cloud phase claims, more
\* getOrganizations has answered and no organization carries the configured name.
OrgAbsent == orgsResp # NoneObj /\ FindOrg(orgsResp.val, ORG_NAME) = ""

ProducedOutput(raw) == ~HasInvalid(raw) /\ raw # EmptyOut

\* C15: clientPresentCheck reports the client present exactly when its query
\* (mac-address-table for a MAC lookup, ARP for an IP lookup) produced
\* output; a query the switch rejected as invalid does not count as presence.
C15_PresentIffOutput ==
    \A w \in Switches :
       checkOut[w] # NoneObj => (present[w] = "yes" <=> ProducedOutput(checkOut[w]))

\* The commands of the five extraction calls, in the order of app.py 75-79.
ExtractionCommands ==
    <<ShowHostname, ShowArp, ShowMacTable, ShowIntBr, ShowIntTrunk, ShowCdp, ShowLldp>>

\* C16: the slot only ever holds the record of a thread whose presence check
\* was positive, that then sent the extraction commands in the order
\* hostname, ARP table, mac-address table, interface status, CDP, LLDP, and
\* that closed its session before it published: no record is published
\* before its extraction has finished.
C16_PublishAfterExtraction ==
    cat_details # NoneObj =>
       LET w == cat_details.switch_connection
       IN /\ present[w] = "yes"
          /\ Len(cmdLog[w]) = 1 + Len(ExtractionCommands)
          /\ cmdLog[w][1] \in {ShowMacTable, ShowArpInclude}
          /\ Tail(cmdLog[w]) = ExtractionCommands
          /\ session[w] = "closed"
          /\ wpc[w] \in {"publish", "release", "done"}

C16_Witness ==
    /\ cat_details # NoneObj
    /\ wpc[cat_details.switch_connection] = "release"
    /\ cmdLog[cat_details.switch_connection][1] = ShowArpInclude
    /\ \E v \in Switches : wpc[v] \in {"hostname", "arp", "mactable", "intstatus", "neighbors"}

\* The threads whose presence check was positive.
Matching == {w \in Switches : present[w] = "yes"}

\* C17: when two or more switches reported the client present, the slot
\* after the barrier holds the whole record of one of their threads, the one
\* that acquired the lock last: every field of the slot is that thread's.
C17_LastWriterWins ==
    (PastBarrier /\ Cardinality(Matching) >= 2) =>
       /\ cat_details # NoneObj
       /\ lastHolder \in Matching
       /\ cat_details = client[lastHolder]

\* C18: whenever meraki_client_information has returned and the report
\* assembly starts, clientDetails, usage and usage_pie_chart of the published
\* MerakiClientInfo are all set, on every path of app_usage_history (empty
\* MAC, every network 'not found', another API error, full success).
C18_AllThreeSetAtAssembly ==
    submitPc = "assemble" =>
       /\ meraki_details # NoneObj
       /\ meraki_details.clientDetails # NoneObj
       /\ meraki_details.usage # NoneObj
       /\ meraki_details.usage_pie_chart # NoneObj

\* The probe threads of request r that published a match.
Published(r) == {w \in Switches : thrPc[r][w] = "done" /\ thrClient[r][w] # NoneObj}

\* C19: with requests handled at the same time, what a request reads of the
\* match after its own joins is the record one of its own probe threads
\* published for its own MAC, or nothing when none of them published: the
\* reset and the publications of the other requests do not show in it.
C19_ReadsOwnMatch ==
    \A r \in Requests :
       reqPc[r] = "meraki" =>
          IF Published(r) = {}
          THEN reqSaw[r] = NoneObj
          ELSE /\ reqSaw[r] # NoneObj
               /\ \E w \in Published(r) : reqSaw[r] = thrClient[r][w]
               /\ reqSaw[r].mac = convert_mac(ReqMac(r))

\* The names of the networks of net_ids, in the order of net_ids.
NamesOf(net_ids) == [i \in 1..Len(net_ids) |-> net_ids[i][2]]

\* C20: once app_usage_history has returned for a client with a MAC, the
\* networks lists of usage and of usage_pie_chart each hold one entry per
\* network of net_ids, in the order of net_ids and under its name, so the
\* assembly finds both entries for every name of sorted_net_names.
C20_OneEntryPerNetwork ==
    (submitPc = "assemble" /\ Truthy(meraki_details.mac)) =>
       /\ meraki_details.usage # NoneObj
       /\ meraki_details.usage_pie_chart # NoneObj
       /\ NetNames(meraki_details.usage.networks) = NamesOf(meraki_details.net_ids)
       /\ NetNames(meraki_details.usage_pie_chart.networks) = NamesOf(meraki_details.net_ids)
====
